---- MODULE Spec2Model ----
(***************************************************************************)
(* Model of the taxonomy generator (services/taxonomy-generator).          *)
(*                                                                         *)
(* One build is TaxonomyService.generate_taxonomy: it clears the tenant's  *)
(* topics, loads the batch, reduces, clusters, and for every cluster       *)
(* labels, embeds, saves a level-1 topic, updates the member records and   *)
(* optionally calls _generate_level2_topics on the cluster's members.      *)
(*                                                                         *)
(* Conventions.                                                            *)
(*  - Python positions are 0-based; the model's sequences are 1-based, so  *)
(*    index i of the code is position i+1 here.                            *)
(*  - None is NONE (-1) for the optional integers of ClusterConfig and     *)
(*    NULL (0) for a topic id; topic ids are drawn from a counter.         *)
(*  - An embedding row is the id of the record it belongs to with its      *)
(*    number of columns, a text is the id of its record, so that alignment *)
(*    of ids, rows and texts is visible.                                   *)
(*  - umap and hdbscan are libraries outside the repository: a reduction   *)
(*    keeps the rows in order or raises, a discovery returns one of the    *)
(*    label vectors of LabelVectors(n, m) or raises.                       *)
(*  - every external call (database, OpenAI, umap, hdbscan) may raise.     *)
(***************************************************************************)
EXTENDS Integers, Sequences, FiniteSets, TLC

\* ------------------------------------------------------------------ bounds
MaxRecords == 27
ProbeLen == 4
ProbeLabel == 2
ProbeCoord == 2
MaxJobs == 3
ProbeLevel == 3
ProbeCalls == 3

\* ------------------------------------------------------- program constants
NONE == -1
NULL == 0

settings_hdbscan_min_cluster_size == 50
settings_max_embeddings_per_tenant == 100000
settings_umap_n_components == 10
settings_umap_n_neighbors == 15
EmbeddingDim == 1536
Level2UmapComponentsDefault == 10
Level2UmapComponentsCap == 5
Level2UmapNeighborsDefault == 15
UmapNeighborsMax == 200
MinClusterSizeFloor == 5
DefaultLevel2MinClusterSize == 50
DefaultMaxLevels == 3
DefaultSubdivide == 25
DefaultHdbscanForLevel == 10
DefaultLabelLevel == 1
Level2HdbscanDefault == 50
Level2HdbscanFloor == 10
\* umap_min_dist is a float in 0.0..1.0: distances are counted in tenths.
settings_umap_min_dist == 1
settings_hdbscan_min_samples == 10
Level2MinSamplesDefault == 10
Level2MinSamplesFloor == 5

\* Python's `x or d`: None and 0 are both falsy.
PyOr(x, d) == IF x = NONE \/ x = 0 THEN d ELSE x

\* ------------------------------------------------------------ ClusterConfig
DefaultLevelMinClusterSizes == (1 :> 40) @@ (2 :> 20) @@ (3 :> 10) @@ (4 :> 10)
DefaultLevelHdbscanMinClusterSizes == (1 :> 30) @@ (2 :> 15) @@ (3 :> 8) @@ (4 :> 5)

ClusterConfig ==
    [ umap_n_components |-> NONE,
      umap_n_neighbors |-> NONE,
      umap_min_dist |-> NONE,
      hdbscan_min_cluster_size |-> NONE,
      hdbscan_min_samples |-> NONE,
      max_embeddings |-> NONE,
      max_levels |-> DefaultMaxLevels,
      level_min_cluster_sizes |-> DefaultLevelMinClusterSizes,
      level_hdbscan_min_cluster_sizes |-> DefaultLevelHdbscanMinClusterSizes,
      generate_level2 |-> TRUE,
      level2_min_cluster_size |-> DefaultLevel2MinClusterSize ]

\* (mutant) the default is stored under the key that was missing.
dict_setdefault(d, key, default) ==
    [ value |-> IF key \in DOMAIN d THEN d[key] ELSE default,
      dict |-> IF key \in DOMAIN d THEN d ELSE d @@ (key :> default) ]

\* d.get(key, default): the value returned, and d after the call.
dict_get(d, key, default) ==
    [ value |-> IF key \in DOMAIN d THEN d[key] ELSE default,
      dict |-> d ]

get_min_cluster_size_for_level(config, level) ==
    dict_get(config.level_min_cluster_sizes, level, DefaultSubdivide).value

\* self after get_min_cluster_size_for_level(level) has returned.
after_get_min_cluster_size_for_level(config, level) ==
    [config EXCEPT !.level_min_cluster_sizes =
        dict_get(config.level_min_cluster_sizes, level, DefaultSubdivide).dict]

get_hdbscan_min_cluster_size_for_level(config, level) ==
    dict_get(config.level_hdbscan_min_cluster_sizes, level,
             DefaultHdbscanForLevel).value

\* self after get_hdbscan_min_cluster_size_for_level(level) has returned.
after_get_hdbscan_min_cluster_size_for_level(config, level) ==
    [config EXCEPT !.level_hdbscan_min_cluster_sizes =
        dict_get(config.level_hdbscan_min_cluster_sizes, level,
                 DefaultHdbscanForLevel).dict]

Level2Sized == [ClusterConfig EXCEPT !.hdbscan_min_cluster_size = MinClusterSizeFloor,
                                      !.level2_min_cluster_size = 2 * MinClusterSizeFloor]

\* The configurations a build is started with: the defaults, and overrides
\* inside the validated ranges of the fields. With the smallest
\* hdbscan_min_cluster_size a cluster of 10 records passes the two size
\* tests in front of the sub-clustering.
Configs ==
    { ClusterConfig,
      [ClusterConfig EXCEPT !.hdbscan_min_cluster_size = MinClusterSizeFloor,
                            !.level_min_cluster_sizes = (1 :> 2 * MinClusterSizeFloor)],
      Level2Sized,
      [Level2Sized EXCEPT !.max_levels = 1],
      [Level2Sized EXCEPT !.generate_level2 = FALSE] }

\* ----------------------------------------------------------- UMAPReducer
Min(x, y) == IF x <= y THEN x ELSE y

\* UMAPReducer.__init__: self.n_components, self.n_neighbors, self.min_dist
UMAPReducer(n_components, n_neighbors, min_dist) ==
    [ n_components |-> PyOr(n_components, settings_umap_n_components),
      n_neighbors |-> PyOr(n_neighbors, settings_umap_n_neighbors),
      min_dist |-> PyOr(min_dist, settings_umap_min_dist) ]

\* (mutant) the reducer's own n_neighbors whatever the batch.
UmapNeighborsUnclamped(self, n_samples) == self.n_neighbors

\* umap.UMAP(n_neighbors=min(self.n_neighbors, embeddings.shape[0] - 1), ...)
UmapNeighbors(self, n_samples) == Min(self.n_neighbors, n_samples - 1)

\* The row of the record `id` as load_embeddings_for_tenant returns it.
Embedding(id) == [of |-> id, n_components |-> EmbeddingDim]

\* What umap returns for a row: self.n_components coordinates of it.
ReducedRow(self, row) == [of |-> row.of, n_components |-> self.n_components]

\* self._reducer.fit_transform(embeddings): a row for a row, in order.
UmapRows(self, embeddings) ==
    [i \in 1..Len(embeddings) |-> ReducedRow(self, embeddings[i])]

\* --------------------------------------------------- UMAPReducer.fit_transform
\* if embeddings.shape[0] == 0: return np.array([])
\* stands in front of umap.UMAP(...).fit_transform(embeddings).
UmapCalled(embeddings) == Len(embeddings) # 0

\* reduced is what umap.UMAP(...).fit_transform returned for the rows.
fit_transform(embeddings, reduced) ==
    IF ~UmapCalled(embeddings) THEN << >> ELSE reduced

\* ------------------------------------------------- HDBSCANClusterer.fit_predict
RECURSIVE WhereFrom(_, _, _)
WhereFrom(labels, l, i) ==
    IF i > Len(labels) THEN << >>
    ELSE (IF labels[i] = l THEN <<i>> ELSE << >>) \o WhereFrom(labels, l, i + 1)

\* np.where(labels == l)[0]: the positions holding l, ascending.
Where(labels, l) == WhereFrom(labels, l, 1)

Take(s, idx) == [k \in 1..Len(idx) |-> s[idx[k]]]

\* (mutant) the largest element first.
RECURSIVE SortedSeqDescending(_)
SortedSeqDescending(S) ==
    IF S = {} THEN << >>
    ELSE LET m == CHOOSE x \in S : \A y \in S : x >= y
         IN <<m>> \o SortedSeqDescending(S \ {m})

\* sorted(S)
RECURSIVE SortedSeq(_)
SortedSeq(S) ==
    IF S = {} THEN << >>
    ELSE LET m == CHOOSE x \in S : \A y \in S : x <= y
         IN <<m>> \o SortedSeq(S \ {m})

Range(s) == {s[i] : i \in 1..Len(s)}

NoiseIndices(labels) == Where(labels, -1)

\* (mutant) label 0 is dropped with the noise label.
UniqueLabelsTruthy(labels) == Range(labels) \ {-1, 0}

\* set(labels) - {-1}
UniqueLabels(labels) == Range(labels) \ {-1}

MakeCluster(labels, record_ids, texts, label) ==
    LET indices == Where(labels, label)
    IN [ label |-> label,
         member_indices |-> indices,
         member_ids |-> Take(record_ids, indices),
         member_texts |-> Take(texts, indices),
         size |-> Len(indices) ]

EmptyClusteringResult ==
    [ clusters |-> << >>, noise_indices |-> << >>, noise_ids |-> << >>,
      labels |-> << >> ]

\* (mutant) the library is called for an empty batch too.
HdbscanCalledAlways(embeddings) == TRUE

\* if embeddings.shape[0] == 0: return ClusteringResult(clusters=[], ...)
\* stands in front of hdbscan.HDBSCAN(...).fit_predict(embeddings).
HdbscanCalled(embeddings) == Len(embeddings) # 0

\* labels is what hdbscan.HDBSCAN.fit_predict returned for the rows, one
\* label a row (no label when it was not called).
fit_predict(labels, record_ids, texts) ==
    IF ~HdbscanCalled(labels) THEN EmptyClusteringResult
    ELSE LET order == SortedSeq(UniqueLabels(labels))
         IN [ clusters |-> [k \in 1..Len(order) |->
                              MakeCluster(labels, record_ids, texts, order[k])],
              noise_indices |-> NoiseIndices(labels),
              noise_ids |-> Take(record_ids, NoiseIndices(labels)),
              labels |-> labels ]

\* ----------------------------------- HDBSCANClusterer.get_closest_to_centroid
\* An embedding row is one integer coordinate here. cluster.centroid is the
\* mean of the member rows (fit_predict, centroid = cluster_embeddings.mean),
\* so the distance of a member is |row - sum / size|; the model keeps it
\* multiplied by the cluster size, which leaves the order as it is.
RECURSIVE Sum(_)
Sum(s) == IF s = << >> THEN 0 ELSE Head(s) + Sum(Tail(s))

Abs(x) == IF x >= 0 THEN x ELSE -x

\* distances = np.linalg.norm(cluster_embeddings - cluster.centroid, axis=1)
Distances(cluster, embeddings) ==
    LET cluster_embeddings == Take(embeddings, cluster.member_indices)
    IN [k \in 1..Len(cluster_embeddings) |->
          Abs(cluster.size * cluster_embeddings[k] - Sum(cluster_embeddings))]

\* np.argsort(distances): the orders of the positions S in which the
\* distances do not decrease. numpy's default sort is not stable, so
\* positions at the same distance come in any order.
RECURSIVE ArgSorts(_, _)
ArgSorts(S, distances) ==
    IF S = {} THEN {<< >>}
    ELSE UNION { { <<i>> \o t : t \in ArgSorts(S \ {i}, distances) } :
                 i \in {i \in S : \A j \in S : distances[i] <= distances[j]} }

\* (mutant) one entry more than asked for.
FirstNAndOne(s, n) == SubSeq(s, 1, IF n + 1 <= Len(s) THEN n + 1 ELSE Len(s))

\* s[:n] for n >= 0
FirstN(s, n) == SubSeq(s, 1, IF n <= Len(s) THEN n ELSE Len(s))

\* The list get_closest_to_centroid returns when np.argsort answers `order`.
closest_to_centroid(cluster, embeddings, n, order) ==
    LET distances == Distances(cluster, embeddings)
        sorted_indices == FirstN(order, n)
    IN [k \in 1..Len(sorted_indices) |->
          [ index |-> cluster.member_indices[sorted_indices[k]],
            text |-> cluster.member_texts[sorted_indices[k]],
            distance |-> distances[sorted_indices[k]] ]]

get_closest_to_centroid(cluster, embeddings, n) ==
    { closest_to_centroid(cluster, embeddings, n, order) :
        order \in ArgSorts(1..cluster.size, Distances(cluster, embeddings)) }

\* ------------------------------------------- hdbscan.HDBSCAN(...).fit_predict
\* What the library returns for n rows when it is built as the code builds
\* it: min_cluster_size = m, cluster_selection_method = "eom" and
\* allow_single_cluster left at its default (False). Every cluster has at
\* least m rows, and the root of the cluster tree is never selected, so the
\* rows are all noise or fall into at least two clusters, numbered from 0.
\* The family below has no cluster or two clusters of p and q rows with z
\* noise rows, laid out in one of Arrangements; q is a multiple of m.
Arrangements == {"in_order", "reversed", "interleaved"}

\* z: no noise, one noise row, or all the rows two smallest clusters leave.
NoiseCounts(n, m) == {z \in {0, 1, n - 2 * m} : z >= 0}

AllNoise(n) == [i \in 1..n |-> -1]

\* in_order: cluster 0, cluster 1, noise. reversed: noise, cluster 1,
\* cluster 0. interleaved: clusters 0 and 1 row by row while both last, then
\* the rest of the larger one, then noise.
Arrange(a, p, q, n) ==
    [i \in 1..n |->
        CASE a = "in_order" ->
               IF i <= p THEN 0 ELSE IF i <= p + q THEN 1 ELSE -1
          [] a = "reversed" ->
               IF i <= n - p - q THEN -1 ELSE IF i <= n - p THEN 1 ELSE 0
          [] OTHER ->
               LET both == 2 * (IF p <= q THEN p ELSE q)
               IN IF i <= both THEN (IF i % 2 = 1 THEN 0 ELSE 1)
                  ELSE IF i <= p + q THEN (IF p > q THEN 0 ELSE 1)
                  ELSE -1]

\* The sizes p of cluster 0 when k rows are shared by the two clusters.
ClusterSizes(k, m) == {p \in m..(k - m) : (k - p) % m = 0}

LabelVectors(n, m) ==
    {AllNoise(n)} \cup
    UNION { { Arrange(a, p, n - z - p, n) :
                a \in Arrangements, p \in ClusterSizes(n - z, m) } :
            z \in NoiseCounts(n, m) }

\* HDBSCANClusterer.__init__: self.min_cluster_size, self.min_samples
HDBSCANClusterer(min_cluster_size, min_samples) ==
    [ min_cluster_size |-> PyOr(min_cluster_size, settings_hdbscan_min_cluster_size),
      min_samples |-> PyOr(min_samples, settings_hdbscan_min_samples) ]

\* ------------------------------------------------ OpenAILabeler.label_cluster
\* What the chat completion call does: a usable JSON object, a JSON object
\* without "title", a remote error, an empty content, content that is not
\* JSON, or JSON of the wrong shape (a list, a null or numeric title).
LabelOutcomes ==
    {"ok", "no_title", "remote_error", "empty", "malformed", "wrong_shape"}

LabelFailures == {"remote_error", "empty", "malformed", "wrong_shape"}

LlmTitle == <<"llm title", 0>>
UnnamedTitle == <<"Unnamed Category", 0>>
FallbackTitle(cluster_size) == <<"Cluster (n items)", cluster_size>>

\* The exception raised inside the try block, "none" when it runs through.
LabelTryRaises(outcome) ==
    CASE outcome = "remote_error" -> "APIError"
      [] outcome = "empty" -> "ValueError"
      [] outcome = "malformed" -> "JSONDecodeError"
      [] outcome = "wrong_shape" -> "AttributeError"
      [] OTHER -> "none"

\* (mutant) only json.JSONDecodeError is caught.
label_cluster_json_only(outcome, cluster_size) ==
    LET exc == LabelTryRaises(outcome)
    IN IF exc = "none"
       THEN [ title |-> IF outcome = "no_title" THEN UnnamedTitle ELSE LlmTitle,
              raised |-> "none" ]
       ELSE IF exc = "JSONDecodeError"
       THEN [ title |-> FallbackTitle(cluster_size), raised |-> "none" ]
       ELSE [ title |-> FallbackTitle(cluster_size), raised |-> exc ]

\* The arguments label_cluster is called with besides the texts and the
\* cluster size: neither call site passes level, which is 1 by default.
LabelCall(parent_title) == [parent_title |-> parent_title, level |-> DefaultLabelLevel]

\* [title, raised]: raised is the exception that leaves label_cluster.
label_cluster(outcome, cluster_size) ==
    LET exc == LabelTryRaises(outcome)
    IN IF exc = "none"
       THEN [ title |-> IF outcome = "no_title" THEN UnnamedTitle ELSE LlmTitle,
              raised |-> "none" ]
       ELSE IF exc = "JSONDecodeError"
       THEN [ title |-> FallbackTitle(cluster_size), raised |-> "none" ]
       ELSE [ title |-> FallbackTitle(cluster_size), raised |-> "none" ]

\* ---------------------------------------------------------------- the state
Builds == {1, 2}
Tenants == {"A", "B"}

VARIABLES
    topics,     \* table topics: set of rows
    records,    \* table feedback_records: id -> [tenant_id, topic_id]
    nextId,     \* the next topic id the database hands out
    build,      \* build -> the frame of generate_taxonomy
    before,     \* the tenant's topics and assignments when the build started
    probe,      \* input and output of a function or request applied on its own
    jobs        \* main._jobs: the entries in insertion order

vars == <<topics, records, nextId, build, before, probe, jobs>>

NoResult ==
    [ status |-> "NONE", total_records |-> 0, clustered_records |-> 0,
      noise_records |-> 0, num_clusters |-> 0, topics |-> << >>,
      error_message |-> "" ]

FailedResult(step) ==
    [ status |-> "FAILED", total_records |-> 0, clustered_records |-> 0,
      noise_records |-> 0, num_clusters |-> 0, topics |-> << >>,
      error_message |-> step ]

NoLabel == <<"", 0>>

IdleBuild(pc, tenant, config) ==
    [ pc |-> pc, tenant_id |-> tenant, config |-> config,
      record_ids |-> << >>, embeddings |-> << >>, texts |-> << >>,
      reduced_embeddings |-> << >>,
      clustering_result |-> EmptyClusteringResult,
      ci |-> 0, mi |-> 0, label |-> NoLabel, outcome |-> "none",
      topic_id |-> NULL, topics |-> << >>,
      \* the frame of _generate_level2_topics
      parent_topic_id |-> NULL, parent_title |-> NoLabel,
      cluster_embeddings |-> << >>, cluster_texts |-> << >>,
      cluster_ids |-> << >>, reduced |-> << >>,
      sub_result |-> EmptyClusteringResult,
      sci |-> 0, smi |-> 0, sub_label |-> NoLabel, sub_topic_id |-> NULL,
      level2_topics |-> << >>,
      \* what the build returns, and what was observed on the way
      result |-> NoResult, failed_at |-> "none",
      gate_log |-> << >>, calls |-> {}, accepted |-> << >>,
      discovery |-> << >>, label_call |-> [parent_title |-> NoLabel, level |-> 0] ]

TenantTopics(t) == {r \in topics : r.tenant_id = t}
TenantRecords(t) == {i \in DOMAIN records : records[i].tenant_id = t}
TenantAssignments(t) == [i \in TenantRecords(t) |-> records[i].topic_id]

Snapshot(t) == [topics |-> TenantTopics(t), assignments |-> TenantAssignments(t)]
NoSnapshot == [topics |-> {}, assignments |-> << >>]

OldTitle == <<"old topic", 0>>

\* The batch sizes a build is started on.
RecordCounts == {0, MinClusterSizeFloor - 1, MaxRecords}

\* A tenant with n records; with old = TRUE a previous build has left a topic
\* that record 1 is assigned to.
StoreInit(n, old) ==
    /\ topics = IF old
                THEN {[id |-> 1, tenant_id |-> "A", title |-> OldTitle,
                       level |-> 1, parent_id |-> NULL, by |-> 0]}
                ELSE {}
    /\ records = [i \in 1..n |->
                    [tenant_id |-> "A",
                     topic_id |-> IF old /\ i = 1 THEN 1 ELSE NULL]]
    /\ nextId = 2

Init ==
    /\ jobs = << >>
    /\ \E n \in RecordCounts : StoreInit(n, TRUE)
    /\ \E c \in Configs :
          build = [b \in Builds |->
                     IF b = 1 THEN IdleBuild("start", "A", c)
                     ELSE IdleBuild("off", "B", ClusterConfig)]
    /\ before = [b \in Builds |-> NoSnapshot]
    /\ probe = [op |-> "none"]

Set(b, r) == build' = [build EXCEPT ![b] = r]

\* The frame after the call of `step` was made (whether it returned or raised).
Called(step, f) == [f EXCEPT !.calls = @ \cup {step}]

\* The frame after `clusterer` was built for the discovery at `level`.
Discovered(level, clusterer, f) ==
    [f EXCEPT !.discovery = Append(@, [ level |-> level,
                                        min_cluster_size |-> clusterer.min_cluster_size ])]

\* The frame after save_topic returned topic_id for `cluster`.
Accepted(level, topic_id, cluster, f) ==
    [f EXCEPT !.accepted = Append(@, [ topic_id |-> topic_id, level |-> level,
                                       label |-> cluster.label,
                                       member_ids |-> cluster.member_ids,
                                       labeled |-> f.label_call ])]

\* (mutant) the FAILED result keeps the topics collected so far.
FailKeepingTopics(b, step) ==
    Set(b, Called(step,
             [build[b] EXCEPT !.pc = "done", !.failed_at = step, !.outcome = "none",
                 !.result = [FailedResult(step) EXCEPT !.topics = build[b].topics]]))

\* except Exception in generate_taxonomy: the FAILED result is returned.
Fail(b, step) ==
    Set(b, Called(step,
             [build[b] EXCEPT !.pc = "done", !.result = FailedResult(step),
                              !.failed_at = step, !.outcome = "none"]))

\* ------------------------------------------- generate_taxonomy, level 1
Cluster(f) == f.clustering_result.clusters[f.ci]

\* (mutant) num_clusters counts the topics of every level.
CompletedResultCountingTopics(f) ==
    [ status |-> "COMPLETED",
      total_records |-> Len(f.record_ids),
      clustered_records |-> Len(f.record_ids) - Len(f.clustering_result.noise_ids),
      noise_records |-> Len(f.clustering_result.noise_ids),
      num_clusters |-> Len(f.topics),
      topics |-> f.topics,
      error_message |-> "" ]

CompletedResult(f) ==
    [ status |-> "COMPLETED",
      total_records |-> Len(f.record_ids),
      clustered_records |-> Len(f.record_ids) - Len(f.clustering_result.noise_ids),
      noise_records |-> Len(f.clustering_result.noise_ids),
      num_clusters |-> Len(f.clustering_result.clusters),
      topics |-> f.topics,
      error_message |-> "" ]

EmptyBatchResult == [NoResult EXCEPT !.status = "COMPLETED"]

\* for cluster in clustering_result.clusters: the next cluster, or the result.
Advance(f) ==
    IF f.ci <= Len(f.clustering_result.clusters)
    THEN [f EXCEPT !.pc = "label"]
    ELSE [f EXCEPT !.pc = "done", !.result = CompletedResult(f)]

\* (mutant) rows are matched whatever their tenant.
WhereAnyTenant(row, tenant_id) == TRUE

\* WHERE tenant_id = $1
WhereTenant(row, tenant_id) == row.tenant_id = tenant_id

\* clear_tenant_topics, first statement: UPDATE feedback_records SET topic_id = NULL
ClearAssignments(b) ==
    /\ build[b].pc = "start"
    /\ before' = [before EXCEPT ![b] = Snapshot(build[b].tenant_id)]
    /\ UNCHANGED <<topics, nextId, probe, jobs>>
    /\ \/ /\ records' = [i \in DOMAIN records |->
                           IF WhereTenant(records[i], build[b].tenant_id)
                           THEN [records[i] EXCEPT !.topic_id = NULL]
                           ELSE records[i]]
          /\ Set(b, Called("clear_update", [build[b] EXCEPT !.pc = "clear_delete"]))
       \/ /\ UNCHANGED records
          /\ Fail(b, "clear_update")

\* (mutant) no row is removed.
DeletedTopicsNone(tenant_id) == {}

\* (mutant) the topics that builds have created since are spared.
DeletedTopicsOld(tenant_id) ==
    {r \in topics : WhereTenant(r, tenant_id) /\ r.by = 0}

\* The rows that DELETE FROM topics WHERE tenant_id = $1 removes.
DeletedTopics(tenant_id) == {r \in topics : WhereTenant(r, tenant_id)}

\* clear_tenant_topics, second statement: DELETE FROM topics WHERE tenant_id = $1
ClearTopics(b) ==
    /\ build[b].pc = "clear_delete"
    /\ UNCHANGED <<records, nextId, before, probe, jobs>>
    /\ \/ /\ topics' = topics \ DeletedTopics(build[b].tenant_id)
          /\ Set(b, Called("clear_delete", [build[b] EXCEPT !.pc = "load"]))
       \/ /\ UNCHANGED topics
          /\ Fail(b, "clear_delete")

RECURSIVE Reverse(_)
Reverse(s) == IF s = << >> THEN << >> ELSE Reverse(Tail(s)) \o <<Head(s)>>

\* SELECT ... WHERE tenant_id = $1 ORDER BY created_at DESC: ids grow with
\* creation time, so the newest (largest) id comes first.
\* LIMIT $2 keeps the first `limit` rows. Every record of the model has an
\* embedding and a text (the two IS NOT NULL conditions).
LoadedIds(t, limit) ==
    LET rows == Reverse(SortedSeq({i \in DOMAIN records : WhereTenant(records[i], t)}))
    IN SubSeq(rows, 1, IF Len(rows) <= limit THEN Len(rows) ELSE limit)

\* max_embeddings = config.max_embeddings or settings.max_embeddings_per_tenant
MaxEmbeddings(config) ==
    PyOr(config.max_embeddings, settings_max_embeddings_per_tenant)

\* (mutant) the early return is never taken.
IsEmptyBatchNever(record_ids) == FALSE

\* if len(record_ids) == 0
IsEmptyBatch(record_ids) == Len(record_ids) = 0

Load(b) ==
    /\ build[b].pc = "load"
    /\ UNCHANGED <<topics, records, nextId, before, probe, jobs>>
    /\ \/ LET ids == LoadedIds(build[b].tenant_id, MaxEmbeddings(build[b].config))
          IN IF IsEmptyBatch(ids)
             THEN Set(b, Called("load", [build[b] EXCEPT !.pc = "done", !.result = EmptyBatchResult]))
             ELSE Set(b, Called("load", [build[b] EXCEPT !.pc = "reduce", !.record_ids = ids,
                                          !.embeddings = [i \in 1..Len(ids) |-> Embedding(ids[i])],
                                          !.texts = ids]))
       \/ Fail(b, "load")

\* reducer = UMAPReducer(n_components=config.umap_n_components,
\*                       n_neighbors=config.umap_n_neighbors,
\*                       min_dist=config.umap_min_dist)
Reducer(config) ==
    UMAPReducer(config.umap_n_components, config.umap_n_neighbors,
                config.umap_min_dist)

\* reducer.fit_transform(embeddings): same rows, same order, fewer columns.
Reduce(b) ==
    /\ build[b].pc = "reduce"
    /\ UNCHANGED <<topics, records, nextId, before, probe, jobs>>
    /\ \/ Set(b, Called("reduce", [build[b] EXCEPT !.pc = "cluster",
              !.reduced_embeddings =
                  fit_transform(build[b].embeddings,
                                UmapRows(Reducer(build[b].config),
                                         build[b].embeddings))]))
       \/ Fail(b, "reduce")

\* clusterer = HDBSCANClusterer(min_cluster_size=config.hdbscan_min_cluster_size,
\*                              min_samples=config.hdbscan_min_samples)
Clusterer(config) ==
    HDBSCANClusterer(config.hdbscan_min_cluster_size, config.hdbscan_min_samples)

Discover(b) ==
    /\ build[b].pc = "cluster"
    /\ UNCHANGED <<topics, records, nextId, before, probe, jobs>>
    /\ \/ \E labels \in LabelVectors(Len(build[b].reduced_embeddings),
                                      Clusterer(build[b].config).min_cluster_size) :
            Set(b, Called("cluster", Advance([
                   Discovered(1, Clusterer(build[b].config), build[b]) EXCEPT
                   !.clustering_result =
                       fit_predict(labels, build[b].record_ids, build[b].texts),
                   !.topics = << >>,
                   !.ci = 1])))
       \/ Fail(b, "cluster")

\* await self.labeler.label_cluster(representative_texts, cluster_size).
\* The representative texts only enter the prompt; what the call answers is
\* the outcome o.
LabelWith(b, outcomes) ==
    /\ build[b].pc = "label"
    /\ UNCHANGED <<topics, records, nextId, before, probe, jobs>>
    /\ \E o \in outcomes :
          LET lab == label_cluster(o, Cluster(build[b]).size)
              f == [build[b] EXCEPT !.label_call = LabelCall(NoLabel)]
          IN IF lab.raised = "none"
             THEN Set(b, Called("label", [f EXCEPT !.pc = "embed", !.label = lab.title,
                                          !.outcome = o]))
             ELSE Set(b, Called("label", [f EXCEPT !.pc = "done", !.outcome = o,
                                          !.result = FailedResult("label"),
                                          !.failed_at = "label"]))

Label(b) == LabelWith(b, LabelOutcomes)

\* await self.labeler.generate_embedding(label.title)
Embed(b) ==
    /\ build[b].pc = "embed"
    /\ UNCHANGED <<topics, records, nextId, before, probe, jobs>>
    /\ \/ Set(b, Called("embed", [build[b] EXCEPT !.pc = "save", !.outcome = "none"]))
       \/ Fail(b, "embed")

TopicRow(id, tenant, title, level, parent_id, b) ==
    [ id |-> id, tenant_id |-> tenant, title |-> title, level |-> level,
      parent_id |-> parent_id, by |-> b ]

TopicResult(id, title, level, parent_id, cluster_size) ==
    [ id |-> id, title |-> title, level |-> level, parent_id |-> parent_id,
      cluster_size |-> cluster_size ]

\* await save_topic(..., level=1, parent_id=None, ...)
Save(b) ==
    /\ build[b].pc = "save"
    /\ UNCHANGED <<records, before, probe, jobs>>
    /\ \/ /\ topics' = topics \cup
                {TopicRow(nextId, build[b].tenant_id, build[b].label, 1, NULL, b)}
          /\ nextId' = nextId + 1
          /\ Set(b, Called("save", Accepted(1, nextId, Cluster(build[b]),
                    [build[b] EXCEPT !.pc = "update", !.topic_id = nextId, !.mi = 1])))
       \/ /\ UNCHANGED <<topics, nextId>>
          /\ Fail(b, "save")

\* (mutant) a record that has a topic keeps it.
update_feedback_topic_if_unset(record_id, topic_id) ==
    records' = [i \in DOMAIN records |->
                  IF i = record_id /\ records[i].topic_id = NULL
                  THEN [records[i] EXCEPT !.topic_id = topic_id]
                  ELSE records[i]]

\* UPDATE feedback_records SET topic_id = $1 ... WHERE id = $3
\* (classification_confidence and updated_at are not part of the state).
update_feedback_topic(record_id, topic_id) ==
    records' = [i \in DOMAIN records |->
                  IF i = record_id THEN [records[i] EXCEPT !.topic_id = topic_id]
                  ELSE records[i]]

\* if config.generate_level2 and cluster.size >= config.level2_min_cluster_size
Level2Gate(config, cluster) ==
    config.generate_level2 /\ cluster.size >= config.level2_min_cluster_size

\* if len(cluster_ids) < (config.hdbscan_min_cluster_size or 50) * 2: return []
Level2TooSmall(config, cluster_ids) ==
    Len(cluster_ids) <
        PyOr(config.hdbscan_min_cluster_size, Level2HdbscanDefault) * 2

\* (mutant) the sub-topics are put in front of the list.
ExtendTopicsInFront(topics_, level2_topics) == level2_topics \o topics_

\* topics.extend(level2_topics)
ExtendTopics(topics_, level2_topics) == topics_ \o level2_topics

\* (mutant) the rows come from the level-1 reduction.
Level2PopulationReduced(f, cluster) ==
    [ embeddings |-> Take(f.reduced_embeddings, cluster.member_indices),
      texts |-> cluster.member_texts,
      ids |-> cluster.member_ids ]

\* (mutant) the whole batch is handed on instead of the cluster's members.
Level2PopulationWhole(f, cluster) ==
    [ embeddings |-> f.embeddings, texts |-> f.texts, ids |-> f.record_ids ]

\* cluster_embeddings = embeddings[cluster.member_indices]
\* cluster_texts = cluster.member_texts; cluster_ids = cluster.member_ids
Level2Population(f, cluster) ==
    [ embeddings |-> Take(f.embeddings, cluster.member_indices),
      texts |-> cluster.member_texts,
      ids |-> cluster.member_ids ]

\* The call of _generate_level2_topics up to its first blocking step.
EnterLevel2(f) ==
    LET cluster == Cluster(f)
        population == Level2Population(f, cluster)
        g == [f EXCEPT
                !.parent_topic_id = f.topic_id,
                !.parent_title = f.label,
                !.cluster_embeddings = population.embeddings,
                !.cluster_texts = population.texts,
                !.cluster_ids = population.ids,
                !.level2_topics = << >>]
    IN IF Level2TooSmall(f.config, g.cluster_ids)
       THEN Advance([g EXCEPT !.topics = ExtendTopics(g.topics, << >>),
                              !.ci = g.ci + 1])
       ELSE [g EXCEPT !.pc = "l2_reduce"]

\* After the last member: topics.append(...), then the level-2 gate.
AfterMembers(f) ==
    LET cluster == Cluster(f)
        entered == Level2Gate(f.config, cluster)
        g == [f EXCEPT
                !.topics = Append(f.topics,
                    TopicResult(f.topic_id, f.label, 1, NULL, cluster.size)),
                !.gate_log = Append(f.gate_log,
                    [level |-> 1, size |-> cluster.size, entered |-> entered])]
    IN IF entered THEN EnterLevel2(g)
       ELSE Advance([g EXCEPT !.ci = g.ci + 1])

\* for member_id in cluster.member_ids: await update_feedback_topic(...)
Update(b) ==
    /\ build[b].pc = "update"
    /\ UNCHANGED <<topics, nextId, before, probe, jobs>>
    /\ \/ /\ update_feedback_topic(Cluster(build[b]).member_ids[build[b].mi],
                                   build[b].topic_id)
          /\ IF build[b].mi < Len(Cluster(build[b]).member_ids)
             THEN Set(b, Called("update", [build[b] EXCEPT !.mi = build[b].mi + 1]))
             ELSE Set(b, Called("update", AfterMembers(build[b])))
       \/ /\ UNCHANGED records
          /\ Fail(b, "update")

\* ------------------------------------------------ _generate_level2_topics
SubCluster(f) == f.sub_result.clusters[f.sci]

\* for sub_cluster in sub_result.clusters: the next one, or return
\* level2_topics to generate_taxonomy, which extends topics and goes on.
Level2Advance(f) ==
    IF f.sci <= Len(f.sub_result.clusters)
    THEN [f EXCEPT !.pc = "l2_label"]
    ELSE Advance([f EXCEPT !.topics = ExtendTopics(f.topics, f.level2_topics),
                           !.ci = f.ci + 1])

\* An exception in _generate_level2_topics: nothing in it catches, so it
\* reaches the except clause of generate_taxonomy.
Level2Fail(b, step) == Fail(b, step)

\* reducer = UMAPReducer(
\*     n_components=min(config.umap_n_components or 10, 5),
\*     n_neighbors=min(config.umap_n_neighbors or 15, len(cluster_ids) - 1))
\* min_dist is not passed: it keeps its default None.
SubReducer(config, cluster_ids) ==
    UMAPReducer(
        Min(PyOr(config.umap_n_components, Level2UmapComponentsDefault),
            Level2UmapComponentsCap),
        Min(PyOr(config.umap_n_neighbors, Level2UmapNeighborsDefault),
            Len(cluster_ids) - 1),
        NONE)

\* reducer.fit_transform(cluster_embeddings)
Level2Reduce(b) ==
    /\ build[b].pc = "l2_reduce"
    /\ UNCHANGED <<topics, records, nextId, before, probe, jobs>>
    /\ \/ Set(b, Called("l2_reduce", [build[b] EXCEPT !.pc = "l2_cluster",
              !.reduced =
                  fit_transform(build[b].cluster_embeddings,
                                UmapRows(SubReducer(build[b].config,
                                                    build[b].cluster_ids),
                                         build[b].cluster_embeddings))]))
       \/ Level2Fail(b, "l2_reduce")

Max(x, y) == IF x >= y THEN x ELSE y

\* sub_clusterer = HDBSCANClusterer(
\*     min_cluster_size=max((config.hdbscan_min_cluster_size or 50) // 2, 10),
\*     min_samples=max((config.hdbscan_min_samples or 10) // 2, 5))
SubClusterer(config) ==
    HDBSCANClusterer(
        Max(PyOr(config.hdbscan_min_cluster_size, Level2HdbscanDefault) \div 2,
            Level2HdbscanFloor),
        Max(PyOr(config.hdbscan_min_samples, Level2MinSamplesDefault) \div 2,
            Level2MinSamplesFloor))

\* sub_clusterer.fit_predict(reduced, cluster_ids, cluster_texts)
Level2Discover(b) ==
    /\ build[b].pc = "l2_cluster"
    /\ UNCHANGED <<topics, records, nextId, before, probe, jobs>>
    /\ \/ \E labels \in LabelVectors(Len(build[b].reduced),
                                      SubClusterer(build[b].config).min_cluster_size) :
            Set(b, Called("l2_cluster", Level2Advance([
                   Discovered(2, SubClusterer(build[b].config), build[b]) EXCEPT
                   !.sub_result =
                       fit_predict(labels, build[b].cluster_ids, build[b].cluster_texts),
                   !.level2_topics = << >>,
                   !.sci = 1])))
       \/ Level2Fail(b, "l2_cluster")

\* await self.labeler.label_cluster(..., parent_title=parent_title)
Level2Label(b) ==
    /\ build[b].pc = "l2_label"
    /\ UNCHANGED <<topics, records, nextId, before, probe, jobs>>
    /\ \E o \in LabelOutcomes :
          LET lab == label_cluster(o, SubCluster(build[b]).size)
              f == [build[b] EXCEPT !.label_call = LabelCall(build[b].parent_title)]
          IN IF lab.raised = "none"
             THEN Set(b, Called("l2_label", [f EXCEPT !.pc = "l2_embed", !.sub_label = lab.title,
                                          !.outcome = o]))
             ELSE Set(b, Called("l2_label", [f EXCEPT !.pc = "done", !.outcome = o,
                                          !.result = FailedResult("l2_label"),
                                          !.failed_at = "l2_label"]))

Level2Embed(b) ==
    /\ build[b].pc = "l2_embed"
    /\ UNCHANGED <<topics, records, nextId, before, probe, jobs>>
    /\ \/ Set(b, Called("l2_embed", [build[b] EXCEPT !.pc = "l2_save", !.outcome = "none"]))
       \/ Level2Fail(b, "l2_embed")

\* (mutant) the id of a topic that is saved only later.
Level2ParentIdUnsaved(f) == nextId + 1

\* (mutant) the id of the sub-topic saved last instead of the parent's.
Level2ParentIdStale(f) == f.sub_topic_id

\* level=2, parent_id=parent_topic_id
Level2ParentId(f) == f.parent_topic_id

Level2Save(b) ==
    /\ build[b].pc = "l2_save"
    /\ UNCHANGED <<records, before, probe, jobs>>
    /\ \/ /\ topics' = topics \cup
                {TopicRow(nextId, build[b].tenant_id, build[b].sub_label, 2,
                          Level2ParentId(build[b]), b)}
          /\ nextId' = nextId + 1
          /\ Set(b, Called("l2_save", Accepted(2, nextId, SubCluster(build[b]),
                    [build[b] EXCEPT !.pc = "l2_update", !.sub_topic_id = nextId,
                                     !.smi = 1])))
       \/ /\ UNCHANGED <<topics, nextId>>
          /\ Level2Fail(b, "l2_save")

Level2AfterMembers(f) ==
    Level2Advance([f EXCEPT
        !.level2_topics = Append(f.level2_topics,
            TopicResult(f.sub_topic_id, f.sub_label, 2, Level2ParentId(f),
                        SubCluster(f).size)),
        !.sci = f.sci + 1])

Level2Update(b) ==
    /\ build[b].pc = "l2_update"
    /\ UNCHANGED <<topics, nextId, before, probe, jobs>>
    /\ \/ /\ update_feedback_topic(SubCluster(build[b]).member_ids[build[b].smi],
                                   build[b].sub_topic_id)
          /\ IF build[b].smi < Len(SubCluster(build[b]).member_ids)
             THEN Set(b, Called("l2_update", [build[b] EXCEPT !.smi = build[b].smi + 1]))
             ELSE Set(b, Called("l2_update", Level2AfterMembers(build[b])))
       \/ /\ UNCHANGED records
          /\ Level2Fail(b, "l2_update")

\* ---------------------------------------------------------- specification
Next ==
    \E b \in Builds :
        \/ ClearAssignments(b)
        \/ ClearTopics(b)
        \/ Load(b)
        \/ Reduce(b)
        \/ Discover(b)
        \/ Label(b)
        \/ Embed(b)
        \/ Save(b)
        \/ Update(b)
        \/ Level2Reduce(b)
        \/ Level2Discover(b)
        \/ Level2Label(b)
        \/ Level2Embed(b)
        \/ Level2Save(b)
        \/ Level2Update(b)

Spec == Init /\ [][Next]_vars

\* ------------------------------------------------- two builds in flight
\* Two requests have started generate_taxonomy, one for tenant "A" and one
\* for tenant "B"; the event loop runs one build up to its next await, then
\* any of the two. Each tenant has the smallest batch in which hdbscan finds
\* clusters (two clusters of hdbscan_min_cluster_size = 5 records) and a
\* topic left by an earlier build; with level2_min_cluster_size = 50 no
\* cluster is sub-clustered.
PairConfig == [ClusterConfig EXCEPT !.hdbscan_min_cluster_size = MinClusterSizeFloor]

PairRecords == 2 * MinClusterSizeFloor

\* What the chat completion call does while two builds are in flight: it
\* answers with a usable title. (The other calls may still raise.)
PairLabelOutcomes == {"ok"}

PairLabel(b) == LabelWith(b, PairLabelOutcomes)

\* The tenant that build b of the pair works for.
PairTenant(b) == IF b = 1 THEN "A" ELSE "B"

InitPair ==
    /\ jobs = << >>
    /\ probe = [op |-> "none"]
    /\ before = [b \in Builds |-> NoSnapshot]
    /\ topics = { TopicRow(1, "A", OldTitle, 1, NULL, 0),
                  TopicRow(2, "B", OldTitle, 1, NULL, 0) }
    /\ nextId = 3
    /\ records = [i \in 1..(2 * PairRecords) |->
                    IF i <= PairRecords
                    THEN [tenant_id |-> "A", topic_id |-> IF i = 1 THEN 1 ELSE NULL]
                    ELSE [tenant_id |-> "B",
                          topic_id |-> IF i = PairRecords + 1 THEN 2 ELSE NULL]]
    /\ build = [b \in Builds |-> IdleBuild("start", PairTenant(b), PairConfig)]

NextPair ==
    \E b \in Builds :
        \/ ClearAssignments(b)
        \/ ClearTopics(b)
        \/ Load(b)
        \/ Reduce(b)
        \/ Discover(b)
        \/ PairLabel(b)
        \/ Embed(b)
        \/ Save(b)
        \/ Update(b)

SpecPair == InitPair /\ [][NextPair]_vars

\* ------------------------------------ two builds of one tenant in flight
\* Two requests for tenant "A" have started generate_taxonomy (nothing in
\* trigger_clustering or run_clustering holds a second one back). The first
\* asks for hdbscan_min_cluster_size = 5, the second sends the default
\* configuration, under which a batch of 10 records is all noise.
SameConfig(b) == IF b = 1 THEN PairConfig ELSE ClusterConfig

InitSame ==
    /\ jobs = << >>
    /\ probe = [op |-> "none"]
    /\ before = [b \in Builds |-> NoSnapshot]
    /\ StoreInit(PairRecords, TRUE)
    /\ build = [b \in Builds |-> IdleBuild("start", "A", SameConfig(b))]

NextSame ==
    \E b \in Builds :
        \/ ClearAssignments(b)
        \/ ClearTopics(b)
        \/ Load(b)
        \/ Reduce(b)
        \/ Discover(b)
        \/ Label(b)
        \/ Embed(b)
        \/ Save(b)
        \/ Update(b)

SpecSame == InitSame /\ [][NextSame]_vars

\* ------------------------------------- fit_predict applied on its own
\* Any label vector over -1..ProbeLabel for 1..ProbeLen rows: the labels need
\* not be contiguous nor ordered.
ProbeLabelVectors ==
    UNION { [1..n -> -1..ProbeLabel] : n \in 1..ProbeLen }

\* Record ids and texts that differ from the positions they stand at.
ProbeIds(n) == [i \in 1..n |-> 100 + i]

InitFit ==
    /\ jobs = << >>
    /\ topics = {}
    /\ records = << >>
    /\ nextId = 1
    /\ build = [b \in Builds |-> IdleBuild("off", "A", ClusterConfig)]
    /\ before = [b \in Builds |-> NoSnapshot]
    /\ \E labels \in ProbeLabelVectors :
          probe = [op |-> "fit_predict", labels |-> labels, applied |-> FALSE,
                   result |-> EmptyClusteringResult]

ApplyFitPredict ==
    /\ probe.op = "fit_predict"
    /\ ~probe.applied
    /\ probe' = [probe EXCEPT
                   !.applied = TRUE,
                   !.result = fit_predict(probe.labels,
                                          ProbeIds(Len(probe.labels)),
                                          ProbeIds(Len(probe.labels)))]
    /\ UNCHANGED <<topics, records, nextId, build, before, jobs>>

NextFit == ApplyFitPredict

SpecFit == InitFit /\ [][NextFit]_vars

\* --------------------------- get_closest_to_centroid applied on its own
\* ProbeLen rows with coordinates 0..ProbeCoord, of which the rows labelled 0
\* are the cluster (at least one), and n from 0 to one more than the rows.
ProbeClusterVectors == {s \in [1..ProbeLen -> {-1, 0}] : 0 \in Range(s)}

InitClosest ==
    /\ jobs = << >>
    /\ topics = {}
    /\ records = << >>
    /\ nextId = 1
    /\ build = [b \in Builds |-> IdleBuild("off", "A", ClusterConfig)]
    /\ before = [b \in Builds |-> NoSnapshot]
    /\ \E labels \in ProbeClusterVectors, n \in 0..(ProbeLen + 1),
          embeddings \in [1..ProbeLen -> 0..ProbeCoord] :
          probe = [op |-> "get_closest_to_centroid", embeddings |-> embeddings,
                   cluster |-> fit_predict(labels, ProbeIds(ProbeLen),
                                           ProbeIds(ProbeLen)).clusters[1],
                   n |-> n, applied |-> FALSE, result |-> << >>]

ApplyClosest ==
    /\ probe.op = "get_closest_to_centroid"
    /\ ~probe.applied
    /\ \E closest \in get_closest_to_centroid(probe.cluster, probe.embeddings, probe.n) :
          probe' = [probe EXCEPT !.applied = TRUE, !.result = closest]
    /\ UNCHANGED <<topics, records, nextId, build, before, jobs>>

NextClosest == ApplyClosest

SpecClosest == InitClosest /\ [][NextClosest]_vars

\* ------------------ fit_transform and fit_predict applied to a bare batch
\* A batch of 0..ProbeLen rows of one coordinate is reduced and the reduced
\* rows are clustered, as generate_taxonomy does with a loaded batch.
ProbeBatches == UNION { [1..n -> 0..ProbeCoord] : n \in 0..ProbeLen }

\* umap keeps the number and the order of the rows; here it keeps the rows
\* or moves all of them to one point.
UmapOutputs(embeddings) ==
    {embeddings, [i \in 1..Len(embeddings) |-> 0]}

InitLeaf ==
    /\ jobs = << >>
    /\ topics = {}
    /\ records = << >>
    /\ nextId = 1
    /\ build = [b \in Builds |-> IdleBuild("off", "A", ClusterConfig)]
    /\ before = [b \in Builds |-> NoSnapshot]
    /\ \E embeddings \in ProbeBatches :
          probe = [op |-> "leaf", stage |-> "input", embeddings |-> embeddings,
                   reduced |-> << >>, umap_called |-> FALSE,
                   result |-> EmptyClusteringResult, hdbscan_called |-> FALSE]

ApplyFitTransform ==
    /\ probe.op = "leaf" /\ probe.stage = "input"
    /\ \E reduced \in UmapOutputs(probe.embeddings) :
          probe' = [probe EXCEPT
                      !.stage = "reduced",
                      !.umap_called = UmapCalled(probe.embeddings),
                      !.reduced = fit_transform(probe.embeddings, reduced)]
    /\ UNCHANGED <<topics, records, nextId, build, before, jobs>>

ApplyFitPredictRows ==
    /\ probe.op = "leaf" /\ probe.stage = "reduced"
    /\ \E labels \in [1..Len(probe.reduced) -> {-1, 0, 1}] :
          probe' = [probe EXCEPT
                      !.stage = "clustered",
                      !.hdbscan_called = HdbscanCalled(probe.reduced),
                      !.result = fit_predict(labels, ProbeIds(Len(labels)),
                                             ProbeIds(Len(labels)))]
    /\ UNCHANGED <<topics, records, nextId, build, before, jobs>>

NextLeaf == ApplyFitTransform \/ ApplyFitPredictRows

SpecLeaf == InitLeaf /\ [][NextLeaf]_vars

\* ------------------------------------ the n_neighbors handed to umap.UMAP
\* The batch sizes a reducer is applied to: any batch at level 1; at level 2
\* a cluster that has passed the size test of _generate_level2_topics, which
\* lets through no fewer than 2 * 5 records.
UmapBatchSizes(level) ==
    IF level = 1 THEN 0..ProbeLen
    ELSE {2 * MinClusterSizeFloor + k : k \in 0..ProbeLen}

\* umap_n_neighbors of the request: unset, or inside its validated range
\* 2..200, below and above the batch sizes.
UmapNeighborsRange ==
    {NONE} \cup 2..(ProbeLen + 1)
           \cup {2 * MinClusterSizeFloor + k : k \in 0..ProbeLen}
           \cup {UmapNeighborsMax}

InitUmap ==
    /\ jobs = << >>
    /\ topics = {}
    /\ records = << >>
    /\ nextId = 1
    /\ build = [b \in Builds |-> IdleBuild("off", "A", ClusterConfig)]
    /\ before = [b \in Builds |-> NoSnapshot]
    /\ \E level \in {1, 2}, umap_n_neighbors \in UmapNeighborsRange :
          \E n \in UmapBatchSizes(level) :
             probe = [op |-> "umap", stage |-> "input", level |-> level,
                      config |-> [ClusterConfig EXCEPT
                                    !.umap_n_neighbors = umap_n_neighbors],
                      ids |-> [i \in 1..n |-> i],
                      umap_called |-> FALSE, n_neighbors |-> NONE,
                      reduced |-> << >>]

\* reducer.fit_transform(embeddings) as generate_taxonomy calls it.
ApplyReduce ==
    /\ probe.op = "umap" /\ probe.stage = "input" /\ probe.level = 1
    /\ LET embeddings == [i \in 1..Len(probe.ids) |-> Embedding(probe.ids[i])]
           reducer == Reducer(probe.config)
       IN probe' = [probe EXCEPT
                      !.stage = "reduced",
                      !.umap_called = UmapCalled(embeddings),
                      !.n_neighbors = IF UmapCalled(embeddings)
                                      THEN UmapNeighbors(reducer, Len(embeddings))
                                      ELSE NONE,
                      !.reduced = fit_transform(embeddings,
                                                UmapRows(reducer, embeddings))]
    /\ UNCHANGED <<topics, records, nextId, build, before, jobs>>

\* reducer.fit_transform(cluster_embeddings) as _generate_level2_topics
\* calls it.
ApplyLevel2Reduce ==
    /\ probe.op = "umap" /\ probe.stage = "input" /\ probe.level = 2
    /\ LET embeddings == [i \in 1..Len(probe.ids) |-> Embedding(probe.ids[i])]
           reducer == SubReducer(probe.config, probe.ids)
       IN probe' = [probe EXCEPT
                      !.stage = "reduced",
                      !.umap_called = UmapCalled(embeddings),
                      !.n_neighbors = IF UmapCalled(embeddings)
                                      THEN UmapNeighbors(reducer, Len(embeddings))
                                      ELSE NONE,
                      !.reduced = fit_transform(embeddings,
                                                UmapRows(reducer, embeddings))]
    /\ UNCHANGED <<topics, records, nextId, build, before, jobs>>

NextUmap == ApplyReduce \/ ApplyLevel2Reduce

SpecUmap == InitUmap /\ [][NextUmap]_vars

\* ------------------------- the per-level getters of ClusterConfig on their own
\* The sizes a per-level map holds: the two fallback values among them.
ProbeSizes == {MinClusterSizeFloor, DefaultHdbscanForLevel, DefaultSubdivide}

\* Any map from some of the levels 1..ProbeLevel to a size.
LevelMaps == UNION { [D -> ProbeSizes] : D \in SUBSET (1..ProbeLevel) }

\* A configuration with one of its two per-level maps set by the request.
ProbeConfigs ==
    { [ClusterConfig EXCEPT !.level_min_cluster_sizes = m] : m \in LevelMaps }
    \cup { [ClusterConfig EXCEPT !.level_hdbscan_min_cluster_sizes = m] :
             m \in LevelMaps }

\* The levels asked for: two more than the maps under test can hold, the
\* last one beyond the four levels of the default maps.
ProbeLevels == 1..(ProbeLevel + 2)

InitGetters ==
    /\ jobs = << >>
    /\ topics = {}
    /\ records = << >>
    /\ nextId = 1
    /\ build = [b \in Builds |-> IdleBuild("off", "A", ClusterConfig)]
    /\ before = [b \in Builds |-> NoSnapshot]
    /\ \E config \in ProbeConfigs, level \in ProbeLevels :
          probe = [op |-> "getters", given |-> config, config |-> config,
                   level |-> level, returned |-> << >>]

ApplyGetMin ==
    /\ probe.op = "getters" /\ Len(probe.returned) < ProbeCalls
    /\ probe' = [probe EXCEPT
                   !.returned = Append(@,
                       [ getter |-> "min_cluster_size",
                         value |-> get_min_cluster_size_for_level(probe.config,
                                                                  probe.level) ]),
                   !.config = after_get_min_cluster_size_for_level(probe.config,
                                                                   probe.level)]
    /\ UNCHANGED <<topics, records, nextId, build, before, jobs>>

ApplyGetHdbscan ==
    /\ probe.op = "getters" /\ Len(probe.returned) < ProbeCalls
    /\ probe' = [probe EXCEPT
                   !.returned = Append(@,
                       [ getter |-> "hdbscan_min_cluster_size",
                         value |-> get_hdbscan_min_cluster_size_for_level(
                                       probe.config, probe.level) ]),
                   !.config = after_get_hdbscan_min_cluster_size_for_level(
                                  probe.config, probe.level)]
    /\ UNCHANGED <<topics, records, nextId, build, before, jobs>>

NextGetters == ApplyGetMin \/ ApplyGetHdbscan

SpecGetters == InitGetters /\ [][NextGetters]_vars

\* ------------------- the options of ClusterConfig at level 1, on their own
\* What each optional override of the request can hold: None, or a value of
\* its validated range (Field(None, ge=.., le=..)), the two ends among them.
\* umap_min_dist, ge=0.0, le=1.0, in tenths.
UmapComponentsOptions == {NONE, 2, settings_umap_n_components, 50}
UmapNeighborsOptions == {NONE, 2, settings_umap_n_neighbors, UmapNeighborsMax}
UmapMinDistOptions == {NONE} \cup 0..10
HdbscanMinClusterSizeOptions ==
    {NONE, MinClusterSizeFloor, settings_hdbscan_min_cluster_size, 1000}
HdbscanMinSamplesOptions == {NONE, 1, settings_hdbscan_min_samples, 100}

\* No reducer or clusterer constructed yet.
NoObject == [constructed |-> FALSE]

InitOptions ==
    /\ jobs = << >>
    /\ topics = {}
    /\ records = << >>
    /\ nextId = 1
    /\ build = [b \in Builds |-> IdleBuild("off", "A", ClusterConfig)]
    /\ before = [b \in Builds |-> NoSnapshot]
    /\ \E umap_n_components \in UmapComponentsOptions,
          umap_n_neighbors \in UmapNeighborsOptions,
          umap_min_dist \in UmapMinDistOptions,
          hdbscan_min_cluster_size \in HdbscanMinClusterSizeOptions,
          hdbscan_min_samples \in HdbscanMinSamplesOptions :
          probe = [op |-> "options",
                   config |-> [ClusterConfig EXCEPT
                       !.umap_n_components = umap_n_components,
                       !.umap_n_neighbors = umap_n_neighbors,
                       !.umap_min_dist = umap_min_dist,
                       !.hdbscan_min_cluster_size = hdbscan_min_cluster_size,
                       !.hdbscan_min_samples = hdbscan_min_samples],
                   reducer |-> NoObject,
                   clusterer |-> NoObject]

\* reducer = UMAPReducer(...) as generate_taxonomy constructs it.
ApplyUMAPReducer ==
    /\ probe.op = "options" /\ probe.reducer = NoObject
    /\ probe' = [probe EXCEPT !.reducer = Reducer(probe.config)]
    /\ UNCHANGED <<topics, records, nextId, build, before, jobs>>

\* clusterer = HDBSCANClusterer(...) as generate_taxonomy constructs it.
ApplyHDBSCANClusterer ==
    /\ probe.op = "options" /\ probe.clusterer = NoObject
    /\ probe' = [probe EXCEPT !.clusterer = Clusterer(probe.config)]
    /\ UNCHANGED <<topics, records, nextId, build, before, jobs>>

NextOptions == ApplyUMAPReducer \/ ApplyHDBSCANClusterer

SpecOptions == InitOptions /\ [][NextOptions]_vars

\* ------------------------------------------------ main.py: the job registry
\* A string is the sequence of its characters. tenant_id is a path parameter,
\* any string without "/"; str(uuid4()) is hexadecimal digits and dashes,
\* here one character that no two jobs share.
JobTenants == { <<"a">>, <<"b">>, <<"a", ":", "b">> }

JobIdChars == <<"1", "2", "3", "4", "5", "6", "7", "8", "9">>

\* job_id = uuid4(), for the k-th job submitted
JobId(k) == <<JobIdChars[k]>>

NoJobId == << >>

\* f"{tenant_id}:{job_id}"
JobKey(tenant_id, job_id) == tenant_id \o <<":">> \o job_id

\* key.startswith(prefix)
startswith(key, prefix) ==
    /\ Len(prefix) <= Len(key)
    /\ SubSeq(key, 1, Len(prefix)) = prefix

InitJobs ==
    /\ jobs = << >>
    /\ topics = {}
    /\ records = << >>
    /\ nextId = 1
    /\ build = [b \in Builds |-> IdleBuild("off", "A", ClusterConfig)]
    /\ before = [b \in Builds |-> NoSnapshot]
    /\ probe = [op |-> "none"]

\* progress, in tenths
ProgressQueued == 0
ProgressRunning == 1
ProgressDone == 10

NoJobResult == [status |-> "NONE", topics |-> 0]

\* What generate_taxonomy returns to run_clustering: the status and the
\* number of topics of a ClusterResult.
JobResults ==
    { [status |-> "COMPLETED", topics |-> 2], [status |-> "FAILED", topics |-> 0] }

\* POST /cluster/{tenant_id}: the job is stored as PENDING and run_clustering
\* is handed to the background tasks.
trigger_clustering(tenant_id) ==
    /\ Len(jobs) < MaxJobs
    /\ LET job_id == JobId(Len(jobs) + 1)
       IN jobs' = Append(jobs,
                    [ key |-> JobKey(tenant_id, job_id),
                      job |-> [ job_id |-> job_id, tenant_id |-> tenant_id,
                                status |-> "PENDING",
                                progress |-> ProgressQueued,
                                message |-> <<"Job queued", 0>>,
                                result |-> NoJobResult ] ])
    /\ UNCHANGED <<topics, records, nextId, build, before, probe>>

\* run_clustering up to its await: _jobs[job_key].status = RUNNING, ...
run_clustering_start(i) ==
    /\ i \in 1..Len(jobs)
    /\ jobs[i].job.status = "PENDING"
    /\ jobs' = [jobs EXCEPT ![i].job =
                   [@ EXCEPT !.status = "RUNNING", !.progress = ProgressRunning,
                             !.message = <<"Loading embeddings...", 0>>]]
    /\ UNCHANGED <<topics, records, nextId, build, before, probe>>

\* (mutant) the progress is put back to that of a queued job.
JobAfterResultRequeued(job, result) ==
    [job EXCEPT !.status = result.status, !.progress = ProgressQueued,
                !.result = result,
                !.message = <<"Generated n topics", result.topics>>]

\* _jobs[job_key].status = result.status; .progress = 1.0; .result = result;
\* .message = f"Generated {len(result.topics)} topics"
JobAfterResult(job, result) ==
    [job EXCEPT !.status = result.status, !.progress = ProgressDone,
                !.result = result,
                !.message = <<"Generated n topics", result.topics>>]

\* except Exception as e: .status = FAILED; .message = str(e)
JobAfterException(job) ==
    [job EXCEPT !.status = "FAILED", !.message = <<"str(e)", 0>>]

\* run_clustering after its await: generate_taxonomy has returned a result,
\* or an exception has reached the except clause of run_clustering.
run_clustering_finish(i) ==
    /\ i \in 1..Len(jobs)
    /\ jobs[i].job.status = "RUNNING"
    /\ \/ \E result \in JobResults :
             jobs' = [jobs EXCEPT ![i].job = JobAfterResult(@, result)]
       \/ jobs' = [jobs EXCEPT ![i].job = JobAfterException(@)]
    /\ UNCHANGED <<topics, records, nextId, build, before, probe>>

NotFound == [status_code |-> 404]
Found(job) == [status_code |-> 200, job |-> job]

\* The positions of the entries whose key passes the filter of the tenant.
TenantJobs(tenant_id) ==
    {i \in 1..Len(jobs) : startswith(jobs[i].key, tenant_id \o <<":">>)}

\* GET /cluster/{tenant_id}/status?job_id=...
StatusResponse(tenant_id, job_id) ==
    IF job_id # NoJobId
    THEN LET hits == {i \in 1..Len(jobs) : jobs[i].key = JobKey(tenant_id, job_id)}
         IN IF hits = {} THEN NotFound
            ELSE Found(jobs[CHOOSE i \in hits : TRUE].job)
    ELSE LET tenant_jobs == TenantJobs(tenant_id)
         IN IF tenant_jobs = {} THEN NotFound
            ELSE Found(jobs[CHOOSE i \in tenant_jobs :
                                \A j \in tenant_jobs : j <= i].job)

\* seen: how many jobs were in the registry when the request was answered
\* (entries are only ever added, at the end).
get_clustering_status(tenant_id, job_id) ==
    /\ probe' = [op |-> "status", tenant_id |-> tenant_id, job_id |-> job_id,
                 seen |-> Len(jobs),
                 response |-> StatusResponse(tenant_id, job_id)]
    /\ UNCHANGED <<topics, records, nextId, build, before, jobs>>

NextJobs ==
    \/ \E t \in JobTenants : trigger_clustering(t)
    \/ \E i \in 1..MaxJobs : run_clustering_start(i)
    \/ \E i \in 1..MaxJobs : run_clustering_finish(i)
    \/ \E t \in JobTenants, j \in {NoJobId} \cup {JobId(k) : k \in 1..Len(jobs)} :
          get_clustering_status(t, j)

SpecJobs == InitJobs /\ [][NextJobs]_vars

\* The background tasks on their own. A task that has set its job RUNNING
\* is awaiting generate_taxonomy, whose loops are bounded by the batch: when
\* every call it awaits returns or raises, it returns and the event loop
\* resumes the task.
NextTasks ==
    \/ \E t \in JobTenants : trigger_clustering(t)
    \/ \E i \in 1..MaxJobs : run_clustering_start(i)
    \/ \E i \in 1..MaxJobs : run_clustering_finish(i)

SpecTasks ==
    /\ InitJobs
    /\ [][NextTasks]_vars
    /\ \A i \in 1..MaxJobs : WF_vars(run_clustering_finish(i))

\* ------------------------------------------------------------------ claims
Running == {b \in Builds : build[b].pc # "off"}
Done(b) == build[b].pc = "done"
Completed(b) == Done(b) /\ build[b].result.status = "COMPLETED"
Failed(b) == Done(b) /\ build[b].result.status = "FAILED"
Positions(s) == 1..Len(s)
CreatedBy(b) == {r \in topics : r.by = b}

\* How many of the clusters and the noise set hold position i.
Holders(result, i) ==
    Cardinality({k \in Positions(result.clusters) :
                    i \in Range(result.clusters[k].member_indices)})
    + (IF i \in Range(result.noise_indices) THEN 1 ELSE 0)

NoRepeats(s) == Cardinality(Range(s)) = Len(s)

\* C1: for a non-empty batch and any label vector, fit_predict partitions the
\* positions: each one is held by exactly one cluster or by the noise set,
\* listed once, and nothing else is listed.
C1_Partition ==
    (probe.op = "fit_predict" /\ probe.applied) =>
        LET r == probe.result
            n == Len(probe.labels)
        IN /\ \A i \in 1..n : Holders(r, i) = 1
           /\ NoRepeats(r.noise_indices)
           /\ Range(r.noise_indices) \subseteq 1..n
           /\ \A k \in Positions(r.clusters) :
                 /\ NoRepeats(r.clusters[k].member_indices)
                 /\ Range(r.clusters[k].member_indices) \subseteq 1..n
                 /\ r.clusters[k].size = Len(r.clusters[k].member_indices)

\* Two clusters and noise, with a gap in the labels (0 and 2, no 1).
C1_Witness ==
    /\ probe.op = "fit_predict" /\ probe.applied
    /\ Len(probe.result.clusters) = 2
    /\ Len(probe.result.noise_indices) > 0
    /\ 0 \in Range(probe.labels) /\ 2 \in Range(probe.labels)
    /\ 1 \notin Range(probe.labels)

\* C2: every topic a build persists or returns has 1 <= level <= max_levels.
C2_LevelWithinMaxLevels ==
    \A b \in Running :
        /\ \A r \in CreatedBy(b) :
              1 <= r.level /\ r.level <= build[b].config.max_levels
        /\ \A i \in Positions(build[b].result.topics) :
              /\ 1 <= build[b].result.topics[i].level
              /\ build[b].result.topics[i].level <= build[b].config.max_levels

\* C3: in the list of a completed build a topic with a parent comes after it.
C3_ParentBeforeChild ==
    \A b \in Running :
        Completed(b) =>
            LET ts == build[b].result.topics
            IN \A i \in Positions(ts) :
                  ts[i].parent_id # NULL =>
                      \E j \in 1..(i - 1) : ts[j].id = ts[i].parent_id

C3_Witness ==
    /\ Completed(1)
    /\ \E i \in Positions(build[1].result.topics) :
          /\ build[1].result.topics[i].parent_id # NULL
          /\ i < Len(build[1].result.topics)

\* C4: a topic saved with a parent finds the parent in the store, saved
\* before it by the same build.
C4_ParentSavedFirst ==
    \A r \in topics :
        r.parent_id # NULL =>
            \E p \in topics : p.id = r.parent_id /\ p.by = r.by /\ p.id < r.id

C4_Witness ==
    /\ build[1].pc = "l2_update"
    /\ \E r \in CreatedBy(1) : r.id = build[1].sub_topic_id /\ r.parent_id # NULL

\* C5: a created topic has no parent exactly when its level is 1, and a
\* topic of level k > 1 has a parent of level k - 1 of the same build.
C5_ParentLevel ==
    \A r \in topics :
        r.by # 0 =>
            /\ (r.parent_id = NULL) <=> (r.level = 1)
            /\ r.level > 1 =>
                  \E p \in topics :
                      p.id = r.parent_id /\ p.level = r.level - 1 /\ p.by = r.by

C5_Witness ==
    /\ \E r \in CreatedBy(1) : r.level = 2
    /\ Cardinality({r \in CreatedBy(1) : r.level = 1}) = 2

\* C6: a build ends with a result, COMPLETED or FAILED, and no exception
\* leaves it; after a failed step the result is FAILED with a message, no
\* topics and zero counts.
C6_AlwaysAResult ==
    \A b \in Running :
        /\ Done(b) => build[b].result.status \in {"COMPLETED", "FAILED"}
        /\ build[b].failed_at # "none" =>
              /\ Done(b)
              /\ build[b].result.status = "FAILED"
              /\ build[b].result.error_message # ""
              /\ build[b].result.topics = << >>
              /\ build[b].result.total_records = 0
              /\ build[b].result.clustered_records = 0
              /\ build[b].result.noise_records = 0
              /\ build[b].result.num_clusters = 0

\* A save fails inside the sub-clustering after topics were collected.
C6_Witness ==
    /\ Failed(1)
    /\ build[1].failed_at = "l2_save"
    /\ Len(build[1].topics) > 0

\* C7: a failure of reduction or discovery inside the sub-clustering of one
\* cluster ends that branch only: the build completes and the topics created
\* so far are in the list.
C7_BranchFailureIsolated ==
    \A b \in Running :
        build[b].failed_at \in {"l2_reduce", "l2_cluster"} =>
            /\ ~Failed(b)
            /\ Done(b) => /\ build[b].result.status = "COMPLETED"
                          /\ Len(build[b].result.topics) >= Len(build[b].topics)

C9_FailedBuildLeavesStore ==
    \A b \in Running :
        Failed(b) =>
            /\ TenantTopics(build[b].tenant_id) = before[b].topics
            /\ TenantAssignments(build[b].tenant_id) = before[b].assignments

\* C10: a level-1 cluster below max_levels is sub-clustered when its size is
\* the subdivision threshold of its level, and not when it is one below.
C10_RecursionGate ==
    \A b \in Running :
        \A i \in Positions(build[b].gate_log) :
            LET g == build[b].gate_log[i]
                threshold == get_min_cluster_size_for_level(build[b].config, g.level)
            IN g.level < build[b].config.max_levels =>
                  /\ g.size = threshold => g.entered
                  /\ g.size = threshold - 1 => ~g.entered

\* C11: a population of 4 records handed to the clustering step, at level 1
\* (the loaded batch) or at level 2 (the members of a cluster), gives no
\* topics for that branch, makes no call of the reducer or of the cluster
\* discoverer, and is not reported as an error.
C11_SmallPopulationSkipsClustering ==
    \A b \in Running :
        /\ Len(build[b].record_ids) = MinClusterSizeFloor - 1 =>
              /\ build[b].calls \cap {"reduce", "cluster"} = {}
              /\ Done(b) => Completed(b) /\ build[b].result.topics = << >>
        /\ Len(build[b].cluster_ids) = MinClusterSizeFloor - 1 =>
              /\ build[b].calls \cap {"l2_reduce", "l2_cluster"} = {}
              /\ build[b].level2_topics = << >>

\* The build is inside the sub-clustering of the cluster at position ci.
InLevel2(b) ==
    build[b].pc \in {"l2_reduce", "l2_cluster", "l2_label", "l2_embed",
                     "l2_save", "l2_update"}

\* C12: the population of a sub-clustering call is the member set of the
\* cluster it is made for (ids, rows and texts), a subset of the parent
\* call's population with fewer records; the sub-clusters found in it are
\* subsets of it again.
C12_PopulationShrinks ==
    \A b \in Running :
        InLevel2(b) =>
            LET f == build[b]
            IN /\ f.cluster_ids = Cluster(f).member_ids
               /\ f.cluster_texts = Cluster(f).member_texts
               /\ f.cluster_embeddings = Take(f.embeddings, Cluster(f).member_indices)
               /\ NoRepeats(f.cluster_ids)
               /\ Range(f.cluster_ids) \subseteq Range(f.record_ids)
               /\ Len(f.cluster_ids) < Len(f.record_ids)
               /\ f.pc \notin {"l2_reduce", "l2_cluster"} =>
                     \A k \in Positions(f.sub_result.clusters) :
                         /\ Range(f.sub_result.clusters[k].member_ids)
                                \subseteq Range(f.cluster_ids)
                         /\ f.sub_result.clusters[k].size < Len(f.cluster_ids)

\* A sub-clustering of a cluster whose members are not adjacent rows of the
\* batch has found two sub-clusters.
C12_Witness ==
    /\ build[1].pc = "l2_label"
    /\ Len(build[1].sub_result.clusters) = 2
    /\ \E i \in 1..(Len(build[1].cluster_ids) - 1) :
          build[1].cluster_ids[i] - build[1].cluster_ids[i + 1] > 1

\* The accepted clusters of build b that hold record i.
HoldersOf(b, i) ==
    {k \in Positions(build[b].accepted) : i \in Range(build[b].accepted[k].member_ids)}

\* The topic of the deepest accepted cluster holding record i, NULL if none.
DeepestTopic(b, i) ==
    IF HoldersOf(b, i) = {} THEN NULL
    ELSE LET k == CHOOSE k \in HoldersOf(b, i) :
                     \A j \in HoldersOf(b, i) :
                         build[b].accepted[j].level <= build[b].accepted[k].level
         IN build[b].accepted[k].topic_id

\* C13: when a build run alone has completed, every record of its batch is
\* assigned to the topic of the deepest cluster holding it (the level-2
\* topic where there is one), and a record that is noise at level 1 has no
\* topic.
C13_DeepestTopicAssigned ==
    \A b \in Running :
        (Completed(b) /\ Running = {b}) =>
            /\ \A i \in Range(build[b].record_ids) :
                  records[i].topic_id = DeepestTopic(b, i)
            /\ \A i \in Range(build[b].clustering_result.noise_ids) :
                  records[i].topic_id = NULL

\* A completed build with a record on a level-2 topic, a record that stays
\* on its level-1 topic (noise of the sub-clustering) and a noise record.
C13_Witness ==
    /\ Completed(1)
    /\ build[1].clustering_result.noise_ids # << >>
    /\ \E i, j \in Range(build[1].record_ids) :
          /\ Cardinality(HoldersOf(1, i)) = 2
          /\ Cardinality(HoldersOf(1, j)) = 1
          /\ \E r \in topics : r.id = records[i].topic_id /\ r.level = 2
          /\ \E r \in topics : /\ r.id = records[j].topic_id
                               /\ \E c \in topics : /\ c.id = records[i].topic_id
                                                    /\ c.parent_id = r.id

\* load_embeddings_for_tenant has returned a batch of zero records to build b.
LoadedNothing(b) ==
    /\ "load" \in build[b].calls
    /\ build[b].failed_at # "load"
    /\ build[b].record_ids = << >>

\* C14: a build whose loaded batch has zero records returns COMPLETED with
\* total_records 0, no topics, zero clusters and zero noise records, and
\* calls neither the reducer, the discoverer, the labeler, save_topic nor
\* update_feedback_topic.
C14_EmptyBatch ==
    \A b \in Running :
        LoadedNothing(b) =>
            /\ Completed(b)
            /\ build[b].result.total_records = 0
            /\ build[b].result.clustered_records = 0
            /\ build[b].result.noise_records = 0
            /\ build[b].result.num_clusters = 0
            /\ build[b].result.topics = << >>
            /\ build[b].calls \subseteq {"clear_update", "clear_delete", "load"}
            /\ CreatedBy(b) = {}

C14_Witness ==
    /\ LoadedNothing(1)
    /\ TenantRecords(build[1].tenant_id) = {}
    /\ Completed(1)

\* The discriminant label of the cluster that the topic with this id was
\* created for.
LabelOf(b, id) ==
    LET k == CHOOSE k \in Positions(build[b].accepted) :
                 build[b].accepted[k].topic_id = id
    IN build[b].accepted[k].label

\* The position of the last level-1 topic in front of position i, 0 if none.
Level1Before(ts, i) ==
    LET S == {j \in 1..(i - 1) : ts[j].level = 1}
    IN IF S = {} THEN 0 ELSE CHOOSE j \in S : \A k \in S : k <= j

\* C20: the list of a completed build is in depth-first order: the level-1
\* topics are in ascending order of their cluster's label, every level-2
\* topic stands behind its parent with no other level-1 topic in between,
\* and the children of one parent are in ascending order of label.
C20_DepthFirstOrder ==
    \A b \in Running :
        Completed(b) =>
            LET ts == build[b].result.topics
            IN /\ \A i, j \in Positions(ts) :
                     (i < j /\ ts[i].level = ts[j].level
                            /\ ts[i].parent_id = ts[j].parent_id) =>
                         LabelOf(b, ts[i].id) < LabelOf(b, ts[j].id)
               /\ \A i \in Positions(ts) :
                     ts[i].level > 1 =>
                         /\ Level1Before(ts, i) # 0
                         /\ ts[Level1Before(ts, i)].id = ts[i].parent_id
               /\ [i \in Positions(ts) |-> ts[i].id]
                     = [i \in Positions(build[b].accepted) |->
                          build[b].accepted[i].topic_id]

\* Parent, two children, next level-1 topic, in a batch whose first row is
\* not in the cluster with the smallest label.
C20_Witness ==
    /\ Completed(1)
    /\ Len(build[1].result.topics) = 4
    /\ [i \in 1..4 |-> build[1].result.topics[i].level] = <<1, 2, 2, 1>>
    /\ build[1].clustering_result.labels[1] = 1

\* C17: get_closest_to_centroid returns at most min(n, cluster.size)
\* entries, each a member of the cluster given by its index in
\* member_indices with the text and the distance of that member, no member
\* twice, in order of non-decreasing distance to the centroid.
C17_ClosestToCentroid ==
    (probe.op = "get_closest_to_centroid" /\ probe.applied) =>
        LET r == probe.result
            c == probe.cluster
            d == Distances(c, probe.embeddings)
        IN /\ Len(r) <= probe.n /\ Len(r) <= c.size
           /\ \A k \in Positions(r) :
                 \E m \in Positions(c.member_indices) :
                     /\ r[k].index = c.member_indices[m]
                     /\ r[k].text = c.member_texts[m]
                     /\ r[k].distance = d[m]
           /\ \A j, k \in Positions(r) : j # k => r[j].index # r[k].index
           /\ \A k \in 1..(Len(r) - 1) : r[k].distance <= r[k + 1].distance

\* Fewer entries asked for than the cluster has, members that are not
\* adjacent rows, and the closest member is not the first one.
C17_Witness ==
    /\ probe.op = "get_closest_to_centroid" /\ probe.applied
    /\ probe.n = 2 /\ probe.cluster.size = 3 /\ Len(probe.result) = 2
    /\ probe.cluster.member_indices # <<1, 2, 3>>
    /\ probe.result[1].index # probe.cluster.member_indices[1]
    /\ probe.result[1].distance < probe.result[2].distance

\* C19: for a batch of zero rows fit_transform returns an empty output and
\* fit_predict an empty ClusteringResult (no clusters, no noise), and neither
\* calls the library underneath.
C19_EmptyInput ==
    (probe.op = "leaf" /\ probe.embeddings = << >>) =>
        /\ probe.stage \in {"reduced", "clustered"} =>
              probe.reduced = << >> /\ ~probe.umap_called
        /\ probe.stage = "clustered" =>
              /\ probe.result.clusters = << >>
              /\ probe.result.noise_indices = << >>
              /\ probe.result.noise_ids = << >>
              /\ ~probe.hdbscan_called

C19_Witness ==
    /\ probe.op = "leaf" /\ probe.embeddings = << >>
    /\ probe.stage = "clustered"
    /\ probe.result = EmptyClusteringResult

\* The jobs of tenant t among the first n submitted, by position.
JobsOf(t, n) == {i \in 1..n : jobs[i].job.tenant_id = t}

\* C18: a status request for tenant T without a job id is answered with the
\* job of T submitted last, never with a job of another tenant, and with
\* 404 only when T has no job.
C18_StatusOfOwnTenant ==
    (probe.op = "status" /\ probe.job_id = NoJobId) =>
        LET own == JobsOf(probe.tenant_id, probe.seen)
        IN /\ (probe.response = NotFound) <=> (own = {})
           /\ probe.response # NotFound =>
                 /\ probe.response.job.tenant_id = probe.tenant_id
                 /\ probe.response.job.job_id =
                       jobs[CHOOSE i \in own : \A j \in own : j <= i].job.job_id

\* The topic ids that build b was handed by save_topic.
AcceptedIds(b) == {build[b].accepted[k].topic_id : k \in Positions(build[b].accepted)}

\* The ids of the tenant's topics in the store.
StoredIds(t) == {r.id : r \in TenantTopics(t)}

\* The step taken is a step of build b.
Stepped(b) == build'[b] # build[b]

\* The step leaves every topic and every record of the tenants other than t
\* as it was.
OthersUntouched(t) ==
    /\ {r \in topics' : r.tenant_id # t} = {r \in topics : r.tenant_id # t}
    /\ DOMAIN records' = DOMAIN records
    /\ \A i \in DOMAIN records :
          records[i].tenant_id # t => records'[i] = records[i]

\* The store of build b's tenant holds what b alone has made of it: once b
\* has cleared, the topics it was handed and no other; once b has completed,
\* every record on the topic of the deepest cluster of b holding it.
AsRunAlone(b) ==
    LET t == build[b].tenant_id
    IN /\ ( /\ build[b].pc \notin {"start", "clear_delete"}
            /\ build[b].failed_at \notin {"clear_update", "clear_delete"} ) =>
             StoredIds(t) = AcceptedIds(b)
       /\ Completed(b) =>
             /\ \A i \in TenantRecords(t) : records[i].topic_id = DeepestTopic(b, i)
             /\ {build[b].result.topics[k].id : k \in Positions(build[b].result.topics)}
                    = StoredIds(t)

\* C15: while a build for tenant "A" and a build for tenant "B" interleave,
\* every step of a build (clearing, topic creation, record update) changes
\* topics and records of its own tenant only, and the topics and record
\* assignments each build ends with are those of its own clusters, as when
\* it runs alone.
C15_TenantScoped ==
    [][ /\ \A b \in Builds : Stepped(b) => OthersUntouched(build[b].tenant_id)
        /\ \A b \in Builds : AsRunAlone(b)' ]_vars

\* Both builds have completed with two topics each, and the topic ids of
\* the two tenants interleave.
C15_Witness ==
    /\ \A b \in Builds : Completed(b) /\ Len(build[b].result.topics) = 2
    /\ build[1].tenant_id # build[2].tenant_id
    /\ \E x, z \in AcceptedIds(1) : \E y \in AcceptedIds(2) : x < y /\ y < z

\* The records assigned to a topic that is not in the store.
Dangling ==
    {i \in DOMAIN records :
        /\ records[i].topic_id # NULL
        /\ \A r \in topics : r.id # records[i].topic_id}

\* The topics in build b's result that are not in the store.
LostTopics(b) ==
    {k \in Positions(build[b].result.topics) :
        \A r \in topics : r.id # build[b].result.topics[k].id}

\* Another build of b's tenant has run the DELETE of clear_tenant_topics.
ClearedByAnother(b) ==
    \E c \in Builds \ {b} :
        /\ build[c].tenant_id = build[b].tenant_id
        /\ "clear_delete" \in build[c].calls
        /\ build[c].failed_at # "clear_delete"

\* C16: two builds of one tenant are not kept apart. The DELETE of
\* clear_tenant_topics removes every topic of the tenant, those that the
\* other build has created since included; a topic that a build reports or
\* a record is assigned to is missing from the store only through the
\* other build's clearing.
C16_NoMutualExclusion ==
    [][ /\ \A b \in Builds :
              (build[b].pc = "clear_delete" /\ build'[b].pc = "load") =>
                  {r \in topics' : r.tenant_id = build[b].tenant_id} = {}
        /\ \A b \in Builds :
              (Completed(b) /\ LostTopics(b) # {})' => ClearedByAnother(b)'
        /\ Dangling' # {} => (\E b \in Builds : ClearedByAnother(b))' ]_vars

\* A build has reported COMPLETED with a topic that the other build's
\* clearing has deleted, and a record is still assigned to a deleted topic.
C16_Witness ==
    /\ \E b \in Builds : Completed(b) /\ LostTopics(b) # {} /\ ClearedByAnother(b)
    /\ Dangling # {}

\* C21: at every level at which a build has run the discovery, the
\* min_cluster_size the clusterer was built with is the value of
\* level_hdbscan_min_cluster_sizes for that level (10 without an entry).
C21_DiscoverySizeFromLevelMap ==
    \A b \in Running :
        \A k \in Positions(build[b].discovery) :
            build[b].discovery[k].min_cluster_size =
                get_hdbscan_min_cluster_size_for_level(build[b].config,
                                                       build[b].discovery[k].level)

\* What the getter named g is to return for (config, level).
Resolved(g, config, level) ==
    IF g = "min_cluster_size"
    THEN IF level \in DOMAIN config.level_min_cluster_sizes
         THEN config.level_min_cluster_sizes[level] ELSE 25
    ELSE IF level \in DOMAIN config.level_hdbscan_min_cluster_sizes
         THEN config.level_hdbscan_min_cluster_sizes[level] ELSE 10

\* C22: get_min_cluster_size_for_level(level) returns
\* level_min_cluster_sizes[level], 25 without an entry, and
\* get_hdbscan_min_cluster_size_for_level(level) returns
\* level_hdbscan_min_cluster_sizes[level], 10 without an entry; calls with
\* the same (config, level) return the same value and leave the config as
\* it was given.
C22_GettersPure ==
    probe.op = "getters" =>
        /\ probe.config = probe.given
        /\ \A k \in Positions(probe.returned) :
              probe.returned[k].value =
                  Resolved(probe.returned[k].getter, probe.given, probe.level)
        /\ \A j, k \in Positions(probe.returned) :
              probe.returned[j].getter = probe.returned[k].getter =>
                  probe.returned[j].value = probe.returned[k].value

\* One getter was called twice, and the other one between the two calls,
\* for a level that has no entry in the map of the first.
C22_Witness ==
    /\ probe.op = "getters" /\ Len(probe.returned) = 3
    /\ probe.returned[1].getter = probe.returned[3].getter
    /\ probe.returned[2].getter # probe.returned[1].getter
    /\ \/ /\ probe.returned[1].getter = "min_cluster_size"
          /\ probe.level \notin DOMAIN probe.given.level_min_cluster_sizes
       \/ /\ probe.returned[1].getter = "hdbscan_min_cluster_size"
          /\ probe.level \notin DOMAIN probe.given.level_hdbscan_min_cluster_sizes

\* The accepted entry of build b for the topic with this id.
AcceptedAs(b, id) ==
    build[b].accepted[CHOOSE k \in Positions(build[b].accepted) :
                          build[b].accepted[k].topic_id = id]

\* C23: a topic is labeled as it is persisted: the level handed to
\* label_cluster is the level of the saved row, and the parent title handed
\* to it is the title of the row's parent (none for a row without parent).
C23_LabeledAsPersisted ==
    \A b \in Running :
        \A r \in CreatedBy(b) :
            LET call == AcceptedAs(b, r.id).labeled
            IN /\ call.level = r.level
               /\ r.parent_id = NULL => call.parent_title = NoLabel
               /\ r.parent_id # NULL =>
                     \E p \in topics : p.id = r.parent_id /\ p.title = call.parent_title

\* The position of record id in the batch build b has loaded.
BatchPosition(b, id) ==
    CHOOSE j \in Positions(build[b].record_ids) : build[b].record_ids[j] = id

\* C24: in a sub-clustering call the embeddings, ids and texts are aligned
\* and are those of the parent cluster's members: at each position the row
\* is the row the batch was loaded with for the record of that id (not a
\* reduced one), the text is that record's, and the record is a member of
\* the parent cluster; the sub-level reduction is computed from these rows,
\* and the member indices of a sub-cluster are positions of this narrowed
\* batch.
C24_SubClusteringInputs ==
    \A b \in Running :
        InLevel2(b) =>
            LET f == build[b]
                n == Len(f.cluster_ids)
            IN /\ Len(f.cluster_embeddings) = n /\ Len(f.cluster_texts) = n
               /\ \A i \in 1..n :
                     LET j == BatchPosition(b, f.cluster_ids[i])
                     IN /\ f.cluster_ids[i] \in Range(Cluster(f).member_ids)
                        /\ f.cluster_embeddings[i] = f.embeddings[j]
                        /\ f.cluster_embeddings[i] = Embedding(f.cluster_ids[i])
                        /\ f.cluster_texts[i] = f.texts[j]
               /\ f.pc # "l2_reduce" =>
                     /\ Len(f.reduced) = n
                     /\ \A i \in 1..n : f.reduced[i].of = f.cluster_ids[i]
               /\ f.pc \notin {"l2_reduce", "l2_cluster"} =>
                     \A k \in Positions(f.sub_result.clusters) :
                         LET c == f.sub_result.clusters[k]
                         IN /\ Range(c.member_indices) \subseteq 1..n
                            /\ c.member_ids = Take(f.cluster_ids, c.member_indices)
                            /\ c.member_texts = Take(f.cluster_texts, c.member_indices)

\* A sub-cluster was found whose positions in the narrowed batch differ from
\* the positions of its records in the loaded batch.
C24_Witness ==
    /\ InLevel2(1) /\ build[1].pc = "l2_label"
    /\ \E k \in Positions(build[1].sub_result.clusters) :
          LET c == build[1].sub_result.clusters[k]
          IN \E i \in Positions(c.member_ids) :
                BatchPosition(1, c.member_ids[i]) # c.member_indices[i]

\* C26: whenever umap.UMAP is built for a non-empty batch, at level 1 or in
\* the sub-clustering, its n_neighbors is at most the batch size minus one.
C26_NeighborsClamped ==
    (probe.op = "umap" /\ probe.stage = "reduced" /\ probe.ids # << >>) =>
        /\ probe.umap_called
        /\ probe.n_neighbors <= Len(probe.ids) - 1

\* The level-1 reducer asks for more neighbours than the batch has rows,
\* and umap was built with the batch size minus one.
C26_Witness ==
    /\ probe.op = "umap" /\ probe.stage = "reduced" /\ probe.level = 1
    /\ Len(probe.ids) > 2
    /\ Reducer(probe.config).n_neighbors > Len(probe.ids) - 1
    /\ probe.n_neighbors = Len(probe.ids) - 1

\* The records that build b has written an assignment for, with the topic
\* written last: the members of the clusters whose loop has finished, and
\* the first members of the cluster whose loop was under way.
Written(b) ==
    LET f == build[b]
        a == f.accepted
        done(k) == \/ k < Len(a)
                   \/ f.failed_at \notin {"update", "l2_update"}
        upto(k) == IF done(k) THEN Len(a[k].member_ids)
                   ELSE (IF a[k].level = 1 THEN f.mi ELSE f.smi) - 1
    IN [k \in Positions(a) |-> {a[k].member_ids[i] : i \in 1..upto(k)}]

\* C25: a build that ends FAILED rolls nothing back. The failing step
\* leaves the store as it is; afterwards every topic the build has saved is
\* in the store, every assignment it has written is on its record, and the
\* result it returns lists no topic.
C25_NoRollback ==
    [][ \A b \in Builds :
          (Running = {b} /\ ~Done(b) /\ Failed(b)') =>
              /\ topics' = topics /\ records' = records
              /\ build'[b].result.topics = << >>
              /\ \A k \in Positions(build'[b].accepted) :
                    LET a == build'[b].accepted[k]
                    IN /\ \E r \in topics' : r.id = a.topic_id /\ r.by = b
                       /\ \A i \in Written(b)'[k] :
                             \/ records'[i].topic_id = a.topic_id
                             \/ \E j \in (k + 1)..Len(build'[b].accepted) :
                                   /\ i \in Written(b)'[j]
                                   /\ records'[i].topic_id =
                                          build'[b].accepted[j].topic_id ]_vars

\* A build has failed while it was assigning the members of its second
\* topic: the first topic, its assignments and part of the second's stay.
C25_Witness ==
    /\ Failed(1) /\ build[1].failed_at \in {"update", "l2_update"}
    /\ Len(build[1].accepted) = 2
    /\ \A k \in {1, 2} : \E r \in topics : r.id = build[1].accepted[k].topic_id
    /\ \E i, j \in DOMAIN records :
          /\ records[i].topic_id = build[1].accepted[1].topic_id
          /\ records[j].topic_id = build[1].accepted[2].topic_id
    /\ build[1].result.topics = << >>

\* The level-1 topics of a topic list, in order.
Level1Topics(ts) == SelectSeq(ts, LAMBDA t : t.level = 1)

\* C27: in a COMPLETED result clustered_records + noise_records is
\* total_records, num_clusters is the number of level-1 topics listed, and
\* the cluster sizes of the level-1 topics add up to clustered_records.
C27_CountsAgree ==
    \A b \in Running :
        Completed(b) =>
            LET r == build[b].result
                l1 == Level1Topics(r.topics)
            IN /\ r.clustered_records + r.noise_records = r.total_records
               /\ r.total_records = Len(build[b].record_ids)
               /\ r.num_clusters = Len(l1)
               /\ Sum([k \in Positions(l1) |-> l1[k].cluster_size])
                     = r.clustered_records

\* A completed build with noise records, two level-1 topics and level-2
\* topics under one of them.
C27_Witness ==
    /\ Completed(1)
    /\ build[1].result.noise_records > 0
    /\ build[1].result.num_clusters = 2
    /\ Len(build[1].result.topics) > 2

\* C30: when a build run alone has completed, the tenant's topics in the
\* store are the topics of the returned list: no topic from before the
\* build is left, every returned id is the id of one stored row with the
\* same title, level and parent_id, no id is returned twice, and every
\* stored row of the tenant has an entry in the list.
C30_StoreIsResult ==
    \A b \in Running :
        (Completed(b) /\ Running = {b}) =>
            LET ts == build[b].result.topics
                stored == TenantTopics(build[b].tenant_id)
            IN /\ \A r \in before[b].topics : \A q \in stored : q.id # r.id
               /\ \A j, k \in Positions(ts) : ts[j].id = ts[k].id => j = k
               /\ \A k \in Positions(ts) :
                     /\ Cardinality({r \in stored : r.id = ts[k].id}) = 1
                     /\ \A r \in stored :
                           r.id = ts[k].id =>
                               /\ r.title = ts[k].title
                               /\ r.level = ts[k].level
                               /\ r.parent_id = ts[k].parent_id
               /\ \A r \in stored : \E k \in Positions(ts) : ts[k].id = r.id

\* A build has completed with level-1 and level-2 topics for a tenant that
\* had a topic before.
C30_Witness ==
    /\ Completed(1) /\ Running = {1}
    /\ before[1].topics # {}
    /\ \E j, k \in Positions(build[1].result.topics) :
          /\ build[1].result.topics[j].level = 1
          /\ build[1].result.topics[k].parent_id = build[1].result.topics[j].id

\* The position in cluster.member_indices of the member with this index.
MemberPosition(cluster, index) ==
    CHOOSE m \in Positions(cluster.member_indices) :
        cluster.member_indices[m] = index

\* C28: the ranking of get_closest_to_centroid is stable: of two members at
\* the same distance from the centroid, the one that comes first in the
\* cluster's member order comes first in the result, and a member left out
\* of the result is not closer than, nor tied with and ahead of, one in it.
C28_StableRanking ==
    (probe.op = "get_closest_to_centroid" /\ probe.applied) =>
        LET r == probe.result
            c == probe.cluster
            d == Distances(c, probe.embeddings)
            listed == {MemberPosition(c, r[k].index) : k \in Positions(r)}
        IN /\ \A j, k \in Positions(r) :
                 (j < k /\ r[j].distance = r[k].distance) =>
                     MemberPosition(c, r[j].index) < MemberPosition(c, r[k].index)
           /\ \A m \in Positions(c.member_indices) \ listed :
                 \A l \in listed : d[m] = d[l] => l < m

JobTerminal == {"COMPLETED", "FAILED"}

\* The status changes a job may make in one step.
JobForward ==
    { <<"PENDING", "RUNNING">>, <<"RUNNING", "COMPLETED">>, <<"RUNNING", "FAILED">> }

\* C29: a job's status only moves PENDING -> RUNNING -> COMPLETED or
\* FAILED; a job that is COMPLETED or FAILED is never written again (status,
\* result, message), the progress of a job never decreases, no job leaves
\* the registry, and a job that is RUNNING reaches COMPLETED or FAILED, also
\* while other jobs are queued and run in between.
C29_JobsMoveForward ==
    /\ [][ /\ Len(jobs') >= Len(jobs)
           /\ \A i \in 1..Len(jobs) :
                 LET old == jobs[i].job
                     new == jobs'[i].job
                 IN /\ jobs'[i].key = jobs[i].key
                    /\ \/ new.status = old.status
                       \/ <<old.status, new.status>> \in JobForward
                    /\ old.status \in JobTerminal => new = old
                    /\ new.progress >= old.progress ]_vars
    /\ \A i \in 1..MaxJobs :
          (i <= Len(jobs) /\ jobs[i].job.status = "RUNNING")
              ~> (i <= Len(jobs) /\ jobs[i].job.status \in JobTerminal)

\* Three jobs were queued and ran interleaved: the first is still RUNNING,
\* the second, started after it, has COMPLETED, the third has FAILED.
C29_Witness ==
    /\ Len(jobs) >= 3
    /\ jobs[1].job.status = "RUNNING"
    /\ jobs[2].job.status = "COMPLETED" /\ jobs[2].job.progress = ProgressDone
    /\ jobs[3].job.status = "FAILED"


\* ---------------------------------------------------------------------- C31
\* What an option set to `given` in the request should arrive as: the value
\* itself, and the default only when the option is unset.
HandedOn(given, default) == IF given = NONE THEN default ELSE given

ReducerHandedOn(config, reducer) ==
    /\ reducer.n_components =
           HandedOn(config.umap_n_components, settings_umap_n_components)
    /\ reducer.n_neighbors =
           HandedOn(config.umap_n_neighbors, settings_umap_n_neighbors)
    /\ reducer.min_dist = HandedOn(config.umap_min_dist, settings_umap_min_dist)

ClustererHandedOn(config, clusterer) ==
    /\ clusterer.min_cluster_size =
           HandedOn(config.hdbscan_min_cluster_size,
                    settings_hdbscan_min_cluster_size)
    /\ clusterer.min_samples =
           HandedOn(config.hdbscan_min_samples, settings_hdbscan_min_samples)

\* C31: every value set in ClusterConfig inside its validated range is the
\* value the level-1 reducer or clusterer holds, and the configured default
\* is used only when the option is unset; the lowest allowed values, such
\* as umap_min_dist = 0.0, included.
\* Violated: UMAPReducer.__init__ takes `min_dist or settings.umap_min_dist`,
\* and 0.0 is falsy, so umap_min_dist = 0.0 arrives as the default 0.1.
C31_SetValuesHandedOn ==
    probe.op = "options" =>
        /\ probe.reducer # NoObject => ReducerHandedOn(probe.config, probe.reducer)
        /\ probe.clusterer # NoObject =>
               ClustererHandedOn(probe.config, probe.clusterer)

\* What does hold: umap_min_dist = 0.0 is the only value of the five ranges
\* that is lost, no other range reaches a falsy value.
NonZeroValuesHandedOn ==
    (probe.op = "options" /\ probe.config.umap_min_dist # 0) =>
        /\ probe.reducer # NoObject => ReducerHandedOn(probe.config, probe.reducer)
        /\ probe.clusterer # NoObject =>
               ClustererHandedOn(probe.config, probe.clusterer)

\* The lost value: the request asks for 0.0 and the reducer holds the
\* default.
ZeroMinDistReplaced ==
    /\ probe.op = "options"
    /\ probe.config.umap_min_dist = 0
    /\ probe.reducer # NoObject
    /\ probe.reducer.min_dist = settings_umap_min_dist

====
